---- MODULE Spec2Model ----
(***************************************************************************)
(* The crop editor (CropEditor component): a draggable four-corner region  *)
(* in normalized [0,100] coordinates, its drag rules, the seed effect, and *)
(* the perspective warp / skip paths that hand a result to onConfirm.     *)
(*                                                                         *)
(* Numbers.  The code computes in IEEE doubles; the model computes in      *)
(* exact arithmetic.  A normalized coordinate is an integer count of       *)
(* 1/Scale percent, so 100 percent is 100 * Scale.  Every drag update      *)
(* halves at most once (the edge midpoint), so after MaxDrags updates and  *)
(* one more halving for the rendered handles every value is a whole number *)
(* of 1/Scale.  Pixel coordinates are whole pixels because the natural     *)
(* sizes offered are multiples of 100 * Scale.                             *)
(***************************************************************************)
EXTENDS Integers, Sequences, FiniteSets

\* ------------------------------------------------------------- bounds
\* Drag updates (handleDrag calls that reach setPoints) explored per session.
MaxDrags == 1
\* Asynchronous completions (toBlob callbacks, skip fetches) in flight at once.
MaxPending == 1

\* ---------------------------------------------------------- constants
\* activePoint === null
NoTarget == -1
\* The percent scale of normalized space ("* 100", "Math.min(100, ...)").
Percent == 100

RECURSIVE Pow2(_)
Pow2(n) == IF n = 0 THEN 1 ELSE 2 * Pow2(n - 1)

\* Units per percent in the model's fixed-point coordinates.
Scale == Pow2(MaxDrags + 1)
Full == Percent * Scale

Corners == 0..3
Targets == 0..7

Pt(px, py) == [x |-> px, y |-> py]

\* ------------------------------------------------------------- inputs
\* Bounding rectangles of the rendering surface (getBoundingClientRect).
RectA == [left |-> 0, top |-> 0, width |-> 200, height |-> 100]
RectB == [left |-> 50, top |-> 25, width |-> 100, height |-> 50]
Rects == {RectA, RectB}

\* Client positions left of / above, inside, and right of / below both rectangles.
ClientXs == {-20, 100, 240}
ClientYs == {-10, 50, 120}

\* Pointer events of a session: the client position and the bounding rectangle
\* at that moment.  The pointer is inside the surface, left of it, and right
\* of and below it.
PointerEvents ==
  { [clientX |-> 100, clientY |-> 50, rect |-> RectA],
    [clientX |-> -20, clientY |-> 50, rect |-> RectB],
    [clientX |-> 240, clientY |-> 120, rect |-> RectB] }

\* Natural sizes of the decoded source image, in pixels.
NaturalSizes == { [w |-> 2 * Percent * Scale, h |-> Percent * Scale] }

\* Normalized positions a corner drag can leave a corner at: the borders and the middle.
GridCoords == {0, 50 * Scale, Full}
GridPoints == { Pt(gx, gy) : gx \in GridCoords, gy \in GridCoords }

\* Seeds (the initialPoints prop): fractions of the image in units of 1/Scale,
\* each within [0,1].  One is absent, one has 3 points, one has 5, one is empty.
SeedFull == << <<0, 0>>, <<Scale, 0>>, <<Scale, Scale>>, <<0, Scale>> >>
SeedSkew ==
  << <<Scale \div 4, Scale \div 4>>, <<Scale, 0>>,
     <<Scale - Scale \div 4, Scale>>, <<0, Scale - Scale \div 4>> >>
NoSeed == [present |-> FALSE, pts |-> << >>]
Seeds ==
  { NoSeed,
    [present |-> TRUE, pts |-> SeedFull],
    [present |-> TRUE, pts |-> SeedSkew],
    [present |-> TRUE, pts |-> SubSeq(SeedSkew, 1, 3)],
    [present |-> TRUE, pts |-> Append(SeedFull, <<Scale \div 2, Scale \div 2>>)],
    [present |-> TRUE, pts |-> << >>] }

\* The seeds a session may receive: none, or either detected quadrilateral.
SessionSeeds == { seed \in Seeds : Len(seed.pts) \in {0, 4} /\ (seed.present => Len(seed.pts) = 4) }

\* -------------------------------------------------------------- state
VARIABLES
  points,        \* useState: the four corners 0:TL 1:TR 2:BR 3:BL
  activePoint,   \* useState: 0..3 corner, 4..7 edge, NoTarget
  img,           \* imageRef.current: loaded flag and natural size
  handles,       \* the edge handles as last rendered
  pending,       \* toBlob callbacks and skip fetches that have not completed yet
  confirmed,     \* onConfirm has been called
  drags,         \* drag updates made so far (bounded by MaxDrags)
  lastEvent      \* the handler that ran last, with its input and what it did

\* lastEvent after a handler that takes no input and computes nothing.
NoEvent == [op |-> "none"]

vars ==
  << points, activePoint, img, handles, pending, confirmed, drags, lastEvent >>

\* ------------------------------------------------------------- render
getMidPoint(p1, p2) ==
  [x |-> (p1.x + p2.x) \div 2, y |-> (p1.y + p2.y) \div 2]

\* Mutant of EdgeHandles: the handles are computed once and kept.
EdgeHandlesStale(pts) ==
  [i \in Corners |->
     getMidPoint(Pt(20 * Scale, 20 * Scale), Pt(80 * Scale, 20 * Scale))]

\* The "Edge Handles" array built on every render from the current points.
EdgeHandles(pts) ==
  [i \in Corners |-> getMidPoint(pts[i], pts[(i + 1) % 4])]

\* The default centered inset box.
DefaultPoints ==
  [i \in Corners |->
     CASE i = 0 -> Pt(20 * Scale, 20 * Scale)
       [] i = 1 -> Pt(80 * Scale, 20 * Scale)
       [] i = 2 -> Pt(80 * Scale, 80 * Scale)
       [] i = 3 -> Pt(20 * Scale, 80 * Scale)]

Init ==
  /\ points = DefaultPoints
  /\ activePoint = NoTarget
  /\ img = [loaded |-> FALSE, naturalWidth |-> 0, naturalHeight |-> 0]
  /\ handles = EdgeHandles(DefaultPoints)
  /\ pending = << >>
  /\ confirmed = FALSE
  /\ drags = 0
  /\ lastEvent = NoEvent

\* ---------------------------------------------------------- the seed
\* Mutant of SeedApplies: any seed of at least 4 points is taken.
SeedAppliesAtLeast4(seed) == seed.present /\ Len(seed.pts) >= 4

\* if (initialPoints && initialPoints.length === 4)
SeedApplies(seed) == seed.present /\ Len(seed.pts) = 4

\* The points the effect stores for a seed of exactly 4 points.
SeedPoints(seed) ==
  [i \in Corners |->
     Pt(seed.pts[i + 1][1] * Percent, seed.pts[i + 1][2] * Percent)]

\* Mutant of SeedEffect: a seed is applied only before the first drag update.
SeedEffectGuarded(seed) ==
  /\ points' = IF SeedApplies(seed) /\ drags = 0 THEN SeedPoints(seed) ELSE points
  /\ handles' = EdgeHandles(points')
  /\ lastEvent' = [op |-> "seed", initialPoints |-> seed]
  /\ UNCHANGED << activePoint, img, pending, confirmed, drags >>

\* Mutant of SeedEffect: the points are set from the prop even when it is missing.
SeedEffectUnguarded(seed) ==
  /\ points' = IF SeedApplies(seed)
                 THEN SeedPoints(seed)
                 ELSE [i \in Corners |-> Pt(0, 0)]
  /\ handles' = EdgeHandles(points')
  /\ lastEvent' = [op |-> "seed", initialPoints |-> seed]
  /\ UNCHANGED << activePoint, img, pending, confirmed, drags >>

\* useEffect(..., [initialPoints]): a new prop value arrives and the effect runs.
\* The prop is read by the effect alone, so it is kept in lastEvent.
SeedEffect(seed) ==
  /\ points' = IF SeedApplies(seed) THEN SeedPoints(seed) ELSE points
  /\ handles' = EdgeHandles(points')
  /\ lastEvent' = [op |-> "seed", initialPoints |-> seed]
  /\ UNCHANGED << activePoint, img, pending, confirmed, drags >>

\* The <img> finishes decoding: naturalWidth / naturalHeight become known.
ImgLoad(sz) ==
  /\ ~img.loaded
  /\ img' = [loaded |-> TRUE, naturalWidth |-> sz.w, naturalHeight |-> sz.h]
  /\ lastEvent' = NoEvent
  /\ UNCHANGED << points, activePoint, handles, pending, confirmed, drags >>

\* -------------------------------------------------------------- drag
\* onMouseDown / onTouchStart of corner handle i (t = i) or edge handle i (t = i + 4).
Begin(t) ==
  /\ activePoint' = t
  /\ lastEvent' = [op |-> "begin", target |-> t]
  /\ UNCHANGED << points, img, handles, pending, confirmed, drags >>

\* Mutant of End: releasing the pointer ends a corner drag only.
EndCornerOnly ==
  /\ activePoint' = IF activePoint \in 4..7 THEN activePoint ELSE NoTarget
  /\ lastEvent' = [op |-> "end"]
  /\ UNCHANGED << points, img, handles, pending, confirmed, drags >>

\* onMouseUp / onTouchEnd.
End ==
  /\ activePoint' = NoTarget
  /\ lastEvent' = [op |-> "end"]
  /\ UNCHANGED << points, img, handles, pending, confirmed, drags >>

Min(a, b) == IF a < b THEN a ELSE b
Max(a, b) == IF a > b THEN a ELSE b

\* ((client - origin) / size) * 100, in units of 1/Scale percent.
Normalize(client, origin, size) ==
  ((client - origin) * Percent * Scale) \div size

\* Mutants of Clamp: one of the two limits is missing.
ClampNoFloor(m) == Min(Full, m)
ClampNoCeiling(m) == Max(0, m)

\* Math.max(0, Math.min(100, m))
Clamp(m) == Max(0, Min(Full, m))

InRange(v) == v >= 0 /\ v <= Full

\* Mutant of CornerUpdate: the neighbouring corner follows the x of the dragged corner.
CornerUpdateAligned(pts, i, mx, my) ==
  [pts EXCEPT ![i] = Pt(mx, my), ![(i + 3) % 4] = Pt(mx, pts[(i + 3) % 4].y)]

\* newPoints after a corner update.
CornerUpdate(pts, i, mx, my) == [pts EXCEPT ![i] = Pt(mx, my)]

\* Mutant of EdgeUpdate: one test guards both axes.
EdgeUpdateCoupled(pts, i, mx, my) ==
  LET j == (i + 1) % 4
      dx == mx - (pts[i].x + pts[j].x) \div 2
      dy == my - (pts[i].y + pts[j].y) \div 2
      ok == /\ InRange(pts[i].x + dx) /\ InRange(pts[j].x + dx)
            /\ InRange(pts[i].y + dy) /\ InRange(pts[j].y + dy)
  IN IF ok
       THEN [pts EXCEPT ![i] = Pt(pts[i].x + dx, pts[i].y + dy),
                        ![j] = Pt(pts[j].x + dx, pts[j].y + dy)]
       ELSE pts

\* Mutant of EdgeUpdate: the displacement is measured from the first endpoint.
EdgeUpdateFromEnd(pts, i, mx, my) ==
  LET p1Index == i
      p2Index == (p1Index + 1) % 4
      p1 == pts[p1Index]
      p2 == pts[p2Index]
      dx == mx - p1.x
      dy == my - p1.y
      n1x == p1.x + dx
      n1y == p1.y + dy
      n2x == p2.x + dx
      n2y == p2.y + dy
      okX == InRange(n1x) /\ InRange(n2x)
      okY == InRange(n1y) /\ InRange(n2y)
  IN [pts EXCEPT
        ![p1Index] = Pt(IF okX THEN n1x ELSE p1.x, IF okY THEN n1y ELSE p1.y),
        ![p2Index] = Pt(IF okX THEN n2x ELSE p2.x, IF okY THEN n2y ELSE p2.y)]

\* Mutant of EdgeUpdate: each endpoint is tested and moved on its own.
EdgeUpdatePerEndpoint(pts, i, mx, my) ==
  LET j == (i + 1) % 4
      dx == mx - (pts[i].x + pts[j].x) \div 2
      dy == my - (pts[i].y + pts[j].y) \div 2
      Moved(p) == Pt(IF InRange(p.x + dx) THEN p.x + dx ELSE p.x,
                     IF InRange(p.y + dy) THEN p.y + dy ELSE p.y)
  IN [pts EXCEPT ![i] = Moved(pts[i]), ![j] = Moved(pts[j])]

\* newPoints after an edge update on edge i = activePoint - 4.
EdgeUpdate(pts, i, mx, my) ==
  LET p1Index == i
      p2Index == (p1Index + 1) % 4
      p1 == pts[p1Index]
      p2 == pts[p2Index]
      currentMidX == (p1.x + p2.x) \div 2
      currentMidY == (p1.y + p2.y) \div 2
      dx == mx - currentMidX
      dy == my - currentMidY
      n1x == p1.x + dx
      n1y == p1.y + dy
      n2x == p2.x + dx
      n2y == p2.y + dy
      okX == InRange(n1x) /\ InRange(n2x)
      okY == InRange(n1y) /\ InRange(n2y)
  IN [pts EXCEPT
        ![p1Index] = Pt(IF okX THEN n1x ELSE p1.x, IF okY THEN n1y ELSE p1.y),
        ![p2Index] = Pt(IF okX THEN n2x ELSE p2.x, IF okY THEN n2y ELSE p2.y)]

\* The points handleDrag passes to setPoints.
DragResult(pts, target, mx, my) ==
  IF target < 4
    THEN CornerUpdate(pts, target, mx, my)
    ELSE EdgeUpdate(pts, target - 4, mx, my)

\* What the array held before the update shows once handleDrag has run.
\* newPoints is a copy of the array and not of its point records: the corner
\* branch puts a new record into newPoints only, the edge branch writes x and y
\* of the two records that the array held before shares with newPoints.
HeldAfter(pts, target, mx, my) ==
  IF target < 4
    THEN pts
    ELSE EdgeUpdate(pts, target - 4, mx, my)

\* Mutant of handleDrag: without the early return a missing target counts as corner 0.
handleDragNoReturn(clientX, clientY, rect) ==
  LET rawX == Normalize(clientX, rect.left, rect.width)
      rawY == Normalize(clientY, rect.top, rect.height)
      mx == Clamp(rawX)
      my == Clamp(rawY)
      target == IF activePoint = NoTarget THEN 0 ELSE activePoint
  IN /\ lastEvent' = [op |-> "move", x |-> rawX, y |-> rawY, prev |-> points,
                      held |-> HeldAfter(points, target, mx, my)]
     /\ drags < MaxDrags
     /\ points' = DragResult(points, target, mx, my)
     /\ handles' = EdgeHandles(points')
     /\ drags' = drags + 1
     /\ UNCHANGED << activePoint, img, pending, confirmed >>

\* onMouseMove / onTouchMove.
handleDrag(clientX, clientY, rect) ==
  LET rawX == Normalize(clientX, rect.left, rect.width)
      rawY == Normalize(clientY, rect.top, rect.height)
      mx == Clamp(rawX)
      my == Clamp(rawY)
  IN /\ lastEvent' = [op |-> "move", x |-> rawX, y |-> rawY, prev |-> points,
                      held |-> IF activePoint = NoTarget
                                 THEN points
                                 ELSE HeldAfter(points, activePoint, mx, my)]
     /\ IF activePoint = NoTarget
          THEN UNCHANGED << points, handles, drags >>
          ELSE /\ drags < MaxDrags
               /\ points' = DragResult(points, activePoint, mx, my)
               /\ handles' = EdgeHandles(points')
               /\ drags' = drags + 1
     /\ UNCHANGED << activePoint, img, pending, confirmed >>

\* -------------------------------------------------- rectification
\* Mutant of distanceSq: the vertical difference is left out.
distanceSqAcross(p1, p2) ==
  (p2.x - p1.x) * (p2.x - p1.x)

\* distance(p1, p2) squared: the code takes the square root of this sum.
distanceSq(p1, p2) ==
  (p2.x - p1.x) * (p2.x - p1.x) + (p2.y - p1.y) * (p2.y - p1.y)

RECURSIVE ISqrtFrom(_, _)
ISqrtFrom(n, r) ==
  LET next == (r + n \div r) \div 2
  IN IF next >= r THEN r ELSE ISqrtFrom(n, next)

\* Floor of the square root: what an integer canvas attribute keeps of a length.
ISqrt(n) == IF n = 0 THEN 0 ELSE ISqrtFrom(n, n)

\* Mutant of SrcPoints: both axes are scaled by the natural width.
SrcPointsByWidth(pts, image) ==
  [i \in Corners |->
     Pt((pts[i].x * image.naturalWidth) \div (Percent * Scale),
        (pts[i].y * image.naturalWidth) \div (Percent * Scale))]

\* srcPoints: the corners in pixel space.
SrcPoints(pts, image) ==
  [i \in Corners |->
     Pt((pts[i].x * image.naturalWidth) \div (Percent * Scale),
        (pts[i].y * image.naturalHeight) \div (Percent * Scale))]

\* Mutants of DstB: the last two vertices exchanged; triangle A's vertices repeated.
DstBExchanged == << Pt(1, 1), Pt(0, 1), Pt(1, 0) >>
DstBRepeated == << Pt(0, 0), Pt(1, 0), Pt(0, 1) >>

\* The destination vertices: x counts finalWidth, y counts finalHeight.
DstA == << Pt(0, 0), Pt(1, 0), Pt(0, 1) >>
DstB == << Pt(1, 1), Pt(1, 0), Pt(0, 1) >>

\* Mutant of drawTriangle: the last term of e has the wrong sign.
drawTriangleSign(src, dst) ==
  LET x0 == src[1].x   y0 == src[1].y
      x1 == src[2].x   y1 == src[2].y
      x2 == src[3].x   y2 == src[3].y
      u0 == dst[1].x   v0 == dst[1].y
      u1 == dst[2].x   v1 == dst[2].y
      u2 == dst[3].x   v2 == dst[3].y
      det == (x0 * (y1 - y2)) - (x1 * (y0 - y2)) + (x2 * (y0 - y1))
      a == (u0 * (y1 - y2)) - (u1 * (y0 - y2)) + (u2 * (y0 - y1))
      b == (u1 * (x0 - x2)) - (u0 * (x1 - x2)) - (u2 * (x0 - x1))
      c == u0 * det - a * x0 - b * y0
      d == (v0 * (y1 - y2)) - (v1 * (y0 - y2)) + (v2 * (y0 - y1))
      e == (v1 * (x0 - x2)) - (v0 * (x1 - x2)) + (v2 * (x0 - x1))
      f == v0 * det - d * x0 - e * y0
  IN IF det = 0
       THEN [drawn |-> FALSE]
       ELSE [drawn |-> TRUE, det |-> det, clip |-> dst,
             a |-> a, b |-> b, c |-> c, d |-> d, e |-> e, f |-> f,
             transform |-> << a, d, b, e, c, f >>]

\* drawTriangle(src, dst).  a, b, c are the numerators of exact fractions over
\* det in units of finalWidth, and d, e, f likewise in units of finalHeight.
\* clip is the clipping path and transform the arguments of ctx.transform.
drawTriangle(src, dst) ==
  LET x0 == src[1].x   y0 == src[1].y
      x1 == src[2].x   y1 == src[2].y
      x2 == src[3].x   y2 == src[3].y
      u0 == dst[1].x   v0 == dst[1].y
      u1 == dst[2].x   v1 == dst[2].y
      u2 == dst[3].x   v2 == dst[3].y
      det == (x0 * (y1 - y2)) - (x1 * (y0 - y2)) + (x2 * (y0 - y1))
      a == (u0 * (y1 - y2)) - (u1 * (y0 - y2)) + (u2 * (y0 - y1))
      b == (u1 * (x0 - x2)) - (u0 * (x1 - x2)) - (u2 * (x0 - x1))
      c == u0 * det - a * x0 - b * y0
      d == (v0 * (y1 - y2)) - (v1 * (y0 - y2)) + (v2 * (y0 - y1))
      e == (v1 * (x0 - x2)) - (v0 * (x1 - x2)) - (v2 * (x0 - x1))
      f == v0 * det - d * x0 - e * y0
  IN IF det = 0
       THEN [drawn |-> FALSE]
       ELSE [drawn |-> TRUE, det |-> det, clip |-> dst,
             a |-> a, b |-> b, c |-> c, d |-> d, e |-> e, f |-> f,
             transform |-> << a, d, b, e, c, f >>]

\* Mutant of Warp: the quadrilateral is split along the diagonal from corner 0
\* to corner 2.
WarpOtherDiagonal(pts, image) ==
  LET srcPoints == SrcPoints(pts, image)
      widthTop == distanceSq(srcPoints[0], srcPoints[1])
      widthBottom == distanceSq(srcPoints[3], srcPoints[2])
      finalWidth == Max(widthTop, widthBottom)
      heightLeft == distanceSq(srcPoints[0], srcPoints[3])
      heightRight == distanceSq(srcPoints[1], srcPoints[2])
      finalHeight == Max(heightLeft, heightRight)
  IN [ finalWidthSq |-> finalWidth,
       finalHeightSq |-> finalHeight,
       width |-> ISqrt(finalWidth),
       height |-> ISqrt(finalHeight),
       triA |-> drawTriangle(<< srcPoints[0], srcPoints[1], srcPoints[2] >>,
                             << Pt(0, 0), Pt(1, 0), Pt(1, 1) >>),
       triB |-> drawTriangle(<< srcPoints[0], srcPoints[3], srcPoints[2] >>,
                             << Pt(0, 0), Pt(0, 1), Pt(1, 1) >>) ]

\* What generatePerspectiveWarp computes and draws from the points and the image.
Warp(pts, image) ==
  LET srcPoints == SrcPoints(pts, image)
      widthTop == distanceSq(srcPoints[0], srcPoints[1])
      widthBottom == distanceSq(srcPoints[3], srcPoints[2])
      finalWidth == Max(widthTop, widthBottom)
      heightLeft == distanceSq(srcPoints[0], srcPoints[3])
      heightRight == distanceSq(srcPoints[1], srcPoints[2])
      finalHeight == Max(heightLeft, heightRight)
  IN [ finalWidthSq |-> finalWidth,
       finalHeightSq |-> finalHeight,
       width |-> ISqrt(finalWidth),
       height |-> ISqrt(finalHeight),
       triA |-> drawTriangle(<< srcPoints[0], srcPoints[1], srcPoints[3] >>, DstA),
       triB |-> drawTriangle(<< srcPoints[2], srcPoints[1], srcPoints[3] >>, DstB) ]

\* CropEditorProps: the callbacks through which the editor reaches its caller.
CallerProps == {"onConfirm", "onCancel"}

\* Removes the k-th element of a sequence.
Without(seq, k) == SubSeq(seq, 1, k - 1) \o SubSeq(seq, k + 1, Len(seq))

\* Mutant of generatePerspectiveWarp: confirming puts the quadrilateral back to the default box.
generatePerspectiveWarpResets ==
  LET warp == Warp(points, img)
  IN /\ Len(pending) < MaxPending
     /\ pending' = Append(pending, [task |-> "toBlob",
                                    pixels |-> warp.width > 0 /\ warp.height > 0])
     /\ lastEvent' = [op |-> "confirm", warp |-> warp, calls |-> { }]
     /\ points' = DefaultPoints
     /\ handles' = EdgeHandles(points')
     /\ UNCHANGED << activePoint, img, confirmed, drags >>

\* "Scan Page": generatePerspectiveWarp up to the toBlob request.  The pending
\* callback keeps of the canvas what decides its blob: whether it has pixels.
generatePerspectiveWarp ==
  LET warp == Warp(points, img)
  IN /\ Len(pending) < MaxPending
     /\ pending' = Append(pending, [task |-> "toBlob",
                                    pixels |-> warp.width > 0 /\ warp.height > 0])
     /\ lastEvent' = [op |-> "confirm", warp |-> warp, calls |-> { }]
     /\ UNCHANGED << points, activePoint, img, handles, confirmed, drags >>

\* The toBlob callback: a canvas without pixels gives no blob, and encoding may
\* fail.  calls are the calls the step makes to the caller's props.
toBlobCallback(k, encoded) ==
  /\ pending[k].task = "toBlob"
  /\ LET blob == encoded /\ pending[k].pixels
     IN /\ confirmed' = (confirmed \/ blob)
        /\ lastEvent' = [op |-> "toBlob", encoded |-> encoded,
                         canvas |-> pending[k], blob |-> blob,
                         onConfirm |-> blob, again |-> confirmed /\ blob,
                         calls |-> IF blob THEN {"onConfirm"} ELSE { }]
  /\ pending' = Without(pending, k)
  /\ UNCHANGED << points, activePoint, img, handles, drags >>

\* "Skip Crop": handleSkip up to the fetch of imageSrc.
handleSkip ==
  /\ Len(pending) < MaxPending
  /\ pending' = Append(pending, [task |-> "fetch", url |-> "imageSrc"])
  /\ lastEvent' = NoEvent
  /\ UNCHANGED << points, activePoint, img, handles, confirmed, drags >>

\* Mutant of fetchSettled: once the user has dragged, skip hands over the canvas.
fetchSettledWarped(k, ok) ==
  /\ pending[k].task = "fetch"
  /\ pending' = Without(pending, k)
  /\ confirmed' = (confirmed \/ ok)
  /\ lastEvent' = [op |-> "fetch", ok |-> ok, onConfirm |-> ok,
                   again |-> confirmed /\ ok,
                   blob |-> IF ~ok THEN "none"
                            ELSE IF drags > 0 THEN "canvas" ELSE pending[k].url,
                   previewUrl |-> IF ~ok THEN "none"
                                  ELSE IF drags > 0 THEN "dataURL" ELSE "imageSrc",
                   calls |-> IF ok THEN {"onConfirm"} ELSE {"console.error"}]
  /\ UNCHANGED << points, activePoint, img, handles, drags >>

\* The fetch (and response.blob()) settles: onConfirm(blob, imageSrc), or the
\* catch.  blob names the URL whose body the blob holds; calls are the calls
\* the step makes to the caller's props and to the console.
fetchSettled(k, ok) ==
  /\ pending[k].task = "fetch"
  /\ pending' = Without(pending, k)
  /\ confirmed' = (confirmed \/ ok)
  /\ lastEvent' = [op |-> "fetch", ok |-> ok, onConfirm |-> ok,
                   again |-> confirmed /\ ok,
                   blob |-> IF ok THEN pending[k].url ELSE "none",
                   previewUrl |-> IF ok THEN "imageSrc" ELSE "none",
                   calls |-> IF ok THEN {"onConfirm"} ELSE {"console.error"}]
  /\ UNCHANGED << points, activePoint, img, handles, drags >>

Next ==
  \/ \E seed \in SessionSeeds : SeedEffect(seed)
  \/ \E sz \in NaturalSizes : ImgLoad(sz)
  \/ \E t \in Targets : Begin(t)
  \/ End
  \/ \E e \in PointerEvents : handleDrag(e.clientX, e.clientY, e.rect)
  \/ generatePerspectiveWarp
  \/ \E k \in DOMAIN pending, encoded \in BOOLEAN : toBlobCallback(k, encoded)
  \/ handleSkip
  \/ \E k \in DOMAIN pending, ok \in BOOLEAN : fetchSettled(k, ok)

Spec == Init /\ [][Next]_vars

\* ------------------------------------------- one drag update, any edge
\* The drag update is a function of the points, the target and the pointer.
\* SpecDrag applies it to quadrilaterals in which two adjacent corners lie
\* anywhere on the grid (every such quadrilateral is reached by corner drags),
\* with every target already begun and every pointer position.
DragQuads ==
  { [DefaultPoints EXCEPT ![i] = p, ![(i + 1) % 4] = q] :
      i \in Corners, p \in GridPoints, q \in GridPoints }

InitDrag ==
  /\ points \in DragQuads
  /\ activePoint \in Targets
  /\ img = [loaded |-> FALSE, naturalWidth |-> 0, naturalHeight |-> 0]
  /\ handles = EdgeHandles(points)
  /\ pending = << >>
  /\ confirmed = FALSE
  /\ drags = 0
  /\ lastEvent = NoEvent

NextDrag ==
  \E cx \in ClientXs, cy \in ClientYs, rect \in Rects : handleDrag(cx, cy, rect)

SpecDrag == InitDrag /\ [][NextDrag]_vars

\* ------------------------------------------------ one seed, any seed
\* The effect is a function of the points and the seed.  SpecSeed applies every
\* seed, the malformed ones included, to the quadrilaterals of SpecDrag.
NextSeed == \E seed \in Seeds : SeedEffect(seed)

SpecSeed == InitDrag /\ [][NextSeed]_vars

\* --------------------------------------------- one warp, any quadrilateral
\* The warp is a function of the points and the image.  SpecWarp applies it
\* to every quadrilateral with corners on the grid, degenerate ones included.
WarpQuads == [Corners -> GridPoints] \cup {DefaultPoints, SeedPoints([present |-> TRUE, pts |-> SeedSkew])}

WarpSizes == NaturalSizes \cup { [w |-> Percent * Scale, h |-> Percent * Scale] }

\* Two quadrilaterals off the grid, on a 1000 x 1000 image: a trapezoid
\* (10,10),(90,15),(85,90),(15,85), and (0,0),(50,0),(100,0),(50,50), whose
\* first three corners lie on the top border.
Trapezoid ==
  [i \in Corners |->
     CASE i = 0 -> Pt(10 * Scale, 10 * Scale)
       [] i = 1 -> Pt(90 * Scale, 15 * Scale)
       [] i = 2 -> Pt(85 * Scale, 90 * Scale)
       [] i = 3 -> Pt(15 * Scale, 85 * Scale)]

CollinearTop ==
  [i \in Corners |->
     CASE i = 0 -> Pt(0, 0)
       [] i = 1 -> Pt(50 * Scale, 0)
       [] i = 2 -> Pt(Full, 0)
       [] i = 3 -> Pt(50 * Scale, 50 * Scale)]

ScenarioSize == [w |-> 10 * Percent, h |-> 10 * Percent]

WarpInputs ==
  (WarpQuads \X WarpSizes) \cup ({Trapezoid, CollinearTop} \X {ScenarioSize})

InitWarp ==
  /\ \E input \in WarpInputs :
       /\ points = input[1]
       /\ img = [loaded |-> TRUE, naturalWidth |-> input[2].w,
                 naturalHeight |-> input[2].h]
  /\ activePoint = NoTarget
  /\ handles = EdgeHandles(points)
  /\ pending = << >>
  /\ confirmed = FALSE
  /\ drags = 0
  /\ lastEvent = NoEvent

NextWarp ==
  \/ generatePerspectiveWarp
  \/ \E k \in DOMAIN pending, encoded \in BOOLEAN : toBlobCallback(k, encoded)

SpecWarp == InitWarp /\ [][NextWarp]_vars

\* ------------------------------------------- a session without a seed
\* The caller's corner detection failed: initialPoints stays undefined, so the
\* effect runs with no seed and everything else goes on as in Spec.
NextNoSeed ==
  \/ SeedEffect(NoSeed)
  \/ \E sz \in NaturalSizes : ImgLoad(sz)
  \/ \E t \in Targets : Begin(t)
  \/ End
  \/ \E e \in PointerEvents : handleDrag(e.clientX, e.clientY, e.rect)
  \/ generatePerspectiveWarp
  \/ \E k \in DOMAIN pending, encoded \in BOOLEAN : toBlobCallback(k, encoded)
  \/ handleSkip
  \/ \E k \in DOMAIN pending, ok \in BOOLEAN : fetchSettled(k, ok)

SpecNoSeed == Init /\ [][NextNoSeed]_vars

\* ============================================================ claims
\* The nearest value of [0,100] to v: the clamp as the claims state it.
Nearest(v) == IF v < 0 THEN 0 ELSE IF v > Full THEN Full ELSE v

OutOfRange(v) == v < 0 \/ v > Full

\* A drag update has just been applied to a corner / to an edge.
CornerMoved == lastEvent.op = "move" /\ activePoint \in 0..3
EdgeMoved == lastEvent.op = "move" /\ activePoint \in 4..7

\* C1: in every reachable state each of the four corners has x and y within [0,100].
C1_CornersInRange ==
  \A i \in Corners :
    /\ points[i].x >= 0 /\ points[i].x <= Full
    /\ points[i].y >= 0 /\ points[i].y <= Full

\* An edge was dragged with the pointer beyond the right and bottom borders.
C1_Witness ==
  /\ EdgeMoved
  /\ lastEvent.x > Full /\ lastEvent.y > Full
  /\ points # lastEvent.prev

\* C2: a corner update whose pointer maps to (x,y) with x or y outside [0,100]
\* leaves corner i at (clamp(x), clamp(y)), each axis clamped on its own.
C2_CornerClamped ==
  (CornerMoved /\ (OutOfRange(lastEvent.x) \/ OutOfRange(lastEvent.y)))
    => /\ points[activePoint].x = Nearest(lastEvent.x)
       /\ points[activePoint].y = Nearest(lastEvent.y)
       /\ ~OutOfRange(points[activePoint].x)
       /\ ~OutOfRange(points[activePoint].y)

\* A corner was dragged to a pointer right of the surface and level with its middle.
C2_Witness ==
  /\ CornerMoved
  /\ lastEvent.x > Full /\ ~OutOfRange(lastEvent.y)
  /\ lastEvent.y > 0 /\ lastEvent.y < Full
  /\ points[activePoint] = Pt(Full, lastEvent.y)
  /\ lastEvent.prev[activePoint] # points[activePoint]

\* Twice the displacement of an edge update, per axis (the midpoint is a half sum).
TwiceDx == 2 * Nearest(lastEvent.x)
           - (lastEvent.prev[activePoint - 4].x + lastEvent.prev[(activePoint - 3) % 4].x)
TwiceDy == 2 * Nearest(lastEvent.y)
           - (lastEvent.prev[activePoint - 4].y + lastEvent.prev[(activePoint - 3) % 4].y)

Ends == {activePoint - 4, (activePoint - 3) % 4}

FitsX == \A k \in Ends : 2 * lastEvent.prev[k].x + TwiceDx >= 0
                         /\ 2 * lastEvent.prev[k].x + TwiceDx <= 2 * Full
FitsY == \A k \in Ends : 2 * lastEvent.prev[k].y + TwiceDy >= 0
                         /\ 2 * lastEvent.prev[k].y + TwiceDy <= 2 * Full

\* C3: an edge update moves the x of both endpoints by dx exactly when both
\* results lie in [0,100] and otherwise leaves both x; likewise y with dy; the
\* two decisions are independent.
C3_EdgeAxesIndependent ==
  EdgeMoved =>
    /\ FitsX => \A k \in Ends : 2 * points[k].x = 2 * lastEvent.prev[k].x + TwiceDx
    /\ ~FitsX => \A k \in Ends : points[k].x = lastEvent.prev[k].x
    /\ FitsY => \A k \in Ends : 2 * points[k].y = 2 * lastEvent.prev[k].y + TwiceDy
    /\ ~FitsY => \A k \in Ends : points[k].y = lastEvent.prev[k].y

\* The x move was refused and the y move, not zero, was applied.
C3_Witness ==
  /\ EdgeMoved
  /\ ~FitsX /\ FitsY /\ TwiceDy # 0
  /\ \A k \in Ends : points[k].x = lastEvent.prev[k].x
  /\ \A k \in Ends : points[k].y # lastEvent.prev[k].y

\* C4: every rendered edge handle i is the midpoint of the current corners i and
\* (i+1) mod 4, after corner drags, edge drags and seeds alike.
C4_HandlesFresh ==
  \A i \in Corners :
    /\ 2 * handles[i].x = points[i].x + points[(i + 1) % 4].x
    /\ 2 * handles[i].y = points[i].y + points[(i + 1) % 4].y

\* A drag has moved the corners, and with them a handle.
C4_Witness ==
  /\ lastEvent.op = "move"
  /\ activePoint # NoTarget
  /\ points # lastEvent.prev
  /\ handles # EdgeHandles(lastEvent.prev)

\* Pixel = normalized / 100 * natural size.
PixelX(i) == (points[i].x * img.naturalWidth) \div Full
PixelY(i) == (points[i].y * img.naturalHeight) \div Full
Pixel(i) == Pt(PixelX(i), PixelY(i))

\* The squared pixel length of the segment from corner i to corner j.
LenSq(i, j) ==
  (PixelX(j) - PixelX(i)) * (PixelX(j) - PixelX(i))
  + (PixelY(j) - PixelY(i)) * (PixelY(j) - PixelY(i))

IsLarger(v, m, n) == v >= m /\ v >= n /\ v \in {m, n}

Warped == lastEvent.op = "confirm"

\* C5: on confirm the output width is the larger of the pixel lengths of edges
\* 0-1 and 3-2, and the output height the larger of those of edges 0-3 and 1-2
\* (lengths compared by their squares).
C5_OutputSize ==
  Warped =>
    /\ IsLarger(lastEvent.warp.finalWidthSq, LenSq(0, 1), LenSq(3, 2))
    /\ IsLarger(lastEvent.warp.finalHeightSq, LenSq(0, 3), LenSq(1, 2))

\* The bottom edge is longer than the top one and the left longer than the right.
C5_Witness ==
  /\ Warped
  /\ LenSq(3, 2) > LenSq(0, 1) /\ LenSq(0, 1) > 0
  /\ LenSq(0, 3) > LenSq(1, 2) /\ LenSq(1, 2) > 0
  /\ lastEvent.warp.finalWidthSq = LenSq(3, 2)
  /\ lastEvent.warp.finalHeightSq = LenSq(0, 3)
  /\ img.naturalWidth # img.naturalHeight

\* u = a·x + b·y + c and v = d·x + e·y + f at pixel corner i give the
\* destination (u, v), with u in units of W and v in units of H.
MapsTo(tri, i, u, v) ==
  /\ tri.a * PixelX(i) + tri.b * PixelY(i) + tri.c = u * tri.det
  /\ tri.d * PixelX(i) + tri.e * PixelY(i) + tri.f = v * tri.det

\* C6: each drawn triangle's coefficients take its three source corners onto its
\* destination vertices: A takes corners 0, 1, 3 to (0,0), (W,0), (0,H) and B
\* takes corners 2, 1, 3 to (W,H), (W,0), (0,H).
C6_AffineExact ==
  Warped =>
    /\ lastEvent.warp.triA.drawn =>
         /\ MapsTo(lastEvent.warp.triA, 0, 0, 0)
         /\ MapsTo(lastEvent.warp.triA, 1, 1, 0)
         /\ MapsTo(lastEvent.warp.triA, 3, 0, 1)
    /\ lastEvent.warp.triB.drawn =>
         /\ MapsTo(lastEvent.warp.triB, 2, 1, 1)
         /\ MapsTo(lastEvent.warp.triB, 1, 1, 0)
         /\ MapsTo(lastEvent.warp.triB, 3, 0, 1)

\* Both triangles of a quadrilateral that is no parallelogram were drawn.
C6_Witness ==
  /\ Warped
  /\ lastEvent.warp.triA.drawn /\ lastEvent.warp.triB.drawn
  /\ lastEvent.warp.triA.b # 0 /\ lastEvent.warp.triB.d # 0
  /\ lastEvent.warp.triA.det # lastEvent.warp.triB.det
  /\ lastEvent.warp.triA.det # -lastEvent.warp.triB.det

\* Corners i, j, k lie on one line in pixel space.
Collinear(i, j, k) ==
  (PixelX(j) - PixelX(i)) * (PixelY(k) - PixelY(i))
    = (PixelX(k) - PixelX(i)) * (PixelY(j) - PixelY(i))

\* C7: when a triangle's three pixel corners are collinear it is not drawn, the
\* other triangle is still processed, and the result is still encoded and
\* handed to the caller.
C7_DegenerateStillHanded ==
  /\ Warped =>
       /\ lastEvent.warp.triA.drawn = ~Collinear(0, 1, 3)
       /\ lastEvent.warp.triB.drawn = ~Collinear(2, 1, 3)
       /\ pending # << >> /\ pending[Len(pending)].task = "toBlob"
  /\ (/\ lastEvent.op = "toBlob" /\ lastEvent.encoded
      /\ (Collinear(0, 1, 3) \/ Collinear(2, 1, 3)))
       => lastEvent.onConfirm

\* The corners of the full image.
FullQuad ==
  [i \in Corners |->
     CASE i = 0 -> Pt(0, 0)        [] i = 1 -> Pt(Full, 0)
       [] i = 2 -> Pt(Full, Full)  [] i = 3 -> Pt(0, Full)]

\* The coefficients of tri are (1, 0, 0, 0, 1, 0) given W = w and H = h.
IsIdentity(tri, w, h) ==
  /\ tri.a * w = tri.det /\ tri.b = 0 /\ tri.c = 0
  /\ tri.d = 0 /\ tri.e * h = tri.det /\ tri.f = 0

\* C8: for the quadrilateral (0,0),(100,0),(100,100),(0,100) on a W0 x H0 image
\* the output is W0 x H0 and both transforms are the identity.
C8_IdentityWarp ==
  (Warped /\ points = FullQuad) =>
    /\ lastEvent.warp.finalWidthSq = img.naturalWidth * img.naturalWidth
    /\ lastEvent.warp.finalHeightSq = img.naturalHeight * img.naturalHeight
    /\ lastEvent.warp.width = img.naturalWidth
    /\ lastEvent.warp.height = img.naturalHeight
    /\ lastEvent.warp.triA.drawn /\ lastEvent.warp.triB.drawn
    /\ IsIdentity(lastEvent.warp.triA, img.naturalWidth, img.naturalHeight)
    /\ IsIdentity(lastEvent.warp.triB, img.naturalWidth, img.naturalHeight)

\* The full quadrilateral was warped on an image that is not square.
C8_Witness ==
  /\ Warped /\ points = FullQuad
  /\ img.naturalWidth = 2 * img.naturalHeight
  /\ lastEvent.warp.triB.drawn

\* Points of the output rectangle tested per axis: k / CoverSteps of W and of H.
CoverSteps == 4

\* Twice the signed area of (p, q, r), sides scaled by CoverSteps.
Turn(p, q, r) == (q.x - p.x) * (r.y - p.y) - (r.x - p.x) * (q.y - p.y)

\* The point (gx, gy) / CoverSteps lies in the closed triangle of the clip path.
InClip(clip, gx, gy) ==
  LET g == Pt(gx, gy)
      p == Pt(clip[1].x * CoverSteps, clip[1].y * CoverSteps)
      q == Pt(clip[2].x * CoverSteps, clip[2].y * CoverSteps)
      r == Pt(clip[3].x * CoverSteps, clip[3].y * CoverSteps)
      t1 == Turn(p, q, g)
      t2 == Turn(q, r, g)
      t3 == Turn(r, p, g)
  IN (t1 >= 0 /\ t2 >= 0 /\ t3 >= 0) \/ (t1 <= 0 /\ t2 <= 0 /\ t3 <= 0)

\* C9: the two destination triangles cover every point of the output rectangle,
\* and every point off the diagonal from (W,0) to (0,H) lies in exactly one.
C9_TrianglesTile ==
  (Warped /\ lastEvent.warp.triA.drawn /\ lastEvent.warp.triB.drawn) =>
    \A gx \in 0..CoverSteps, gy \in 0..CoverSteps :
      LET inA == InClip(lastEvent.warp.triA.clip, gx, gy)
          inB == InClip(lastEvent.warp.triB.clip, gx, gy)
      IN /\ inA \/ inB
         /\ gx + gy # CoverSteps => ~(inA /\ inB)

\* Both triangles of a quadrilateral with a non-empty output were drawn.
C9_Witness ==
  /\ Warped
  /\ lastEvent.warp.triA.drawn /\ lastEvent.warp.triB.drawn
  /\ lastEvent.warp.width > 0 /\ lastEvent.warp.height > 0
  /\ points # FullQuad

\* The seed of a seed step has exactly 4 points.
WellFormed(seed) == seed.present /\ Len(seed.pts) = 4

\* C10: a seed of exactly 4 points sets corner i to (100·x_i, 100·y_i) for every
\* i, in order; an absent seed or one without exactly 4 points changes nothing.
C10_SeedOverwrites ==
  [][ lastEvent'.op = "seed" =>
        IF WellFormed(lastEvent'.initialPoints)
          THEN \A i \in Corners :
                 /\ points'[i].x = Percent * lastEvent'.initialPoints.pts[i + 1][1]
                 /\ points'[i].y = Percent * lastEvent'.initialPoints.pts[i + 1][2]
          ELSE points' = points ]_vars

\* A seed with fractional values has replaced all four corners.
C10_Witness ==
  /\ lastEvent.op = "seed"
  /\ WellFormed(lastEvent.initialPoints)
  /\ points[0] = Pt(25 * Scale, 25 * Scale)
  /\ points[2] = Pt(75 * Scale, Full)
  /\ \A i \in Corners : points[i] # DefaultPoints[i]

\* C11: a seed that arrives after the user has dragged overwrites the
\* quadrilateral: afterwards every corner holds the seed's value and none holds
\* the user's edit.
C11_LateSeedClobbers ==
  (/\ lastEvent.op = "seed"
   /\ WellFormed(lastEvent.initialPoints)
   /\ drags > 0)
    => \A i \in Corners :
         /\ points[i].x = Percent * lastEvent.initialPoints.pts[i + 1][1]
         /\ points[i].y = Percent * lastEvent.initialPoints.pts[i + 1][2]

\* The user dragged, the drag was released, and then the skewed seed arrived.
C11_Witness ==
  /\ lastEvent.op = "seed"
  /\ WellFormed(lastEvent.initialPoints)
  /\ drags > 0
  /\ activePoint = NoTarget
  /\ points = SeedPoints([present |-> TRUE, pts |-> SeedSkew])

\* Confirm or skip has been triggered: its completion is in flight, or the
\* result has been handed to the caller.
Finished == pending # << >> \/ confirmed

\* C12: a seed that arrives after confirm or skip was triggered is ignored: it
\* changes neither the quadrilateral nor the result on its way to the caller.
C12_LateSeedIgnored ==
  [][ (lastEvent'.op = "seed" /\ Finished)
        => (points' = points /\ pending' = pending) ]_vars

\* C13: on a successful skip the caller receives the blob fetched from the
\* original image source with the source URI as preview, whatever the corners
\* and the active target are.
C13_SkipFidelity ==
  (lastEvent.op = "fetch" /\ lastEvent.ok)
    => /\ lastEvent.onConfirm
       /\ lastEvent.blob = "imageSrc"
       /\ lastEvent.previewUrl = "imageSrc"

\* A skip succeeded while an edge was being dragged and the corners had moved.
C13_Witness ==
  /\ lastEvent.op = "fetch" /\ lastEvent.ok /\ lastEvent.onConfirm
  /\ activePoint \in 4..7
  /\ drags > 0
  /\ points # DefaultPoints

\* C14: within one session onConfirm is invoked at most once, over every
\* interleaving of Scan Page clicks, Skip clicks and their completions.
C14_ConfirmAtMostOnce ==
  (lastEvent.op \in {"toBlob", "fetch"} /\ lastEvent.onConfirm)
    => ~lastEvent.again

\* C15: a pointer or touch move received while no drag target is active leaves
\* all four corners and the active target unchanged.
C15_MoveWithoutTarget ==
  [][ (lastEvent'.op = "move" /\ activePoint = NoTarget)
        => (points' = points /\ activePoint' = NoTarget) ]_vars

\* A move arrived after a drag had been made and released, and changed nothing.
C15_Witness ==
  /\ lastEvent.op = "move"
  /\ activePoint = NoTarget
  /\ drags > 0
  /\ points = lastEvent.prev
  /\ points # DefaultPoints

\* C16: begin(t) on a corner handle (0..3) or an edge handle (4..7) makes t the
\* one active target, whatever was active before; mouse-up or touch-end leaves
\* no target active, from every state; neither changes a corner.
C16_TargetLifecycle ==
  [][ /\ lastEvent'.op = "begin"
        => /\ lastEvent'.target \in Targets
           /\ activePoint' = lastEvent'.target
           /\ points' = points
      /\ lastEvent'.op = "end"
        => /\ activePoint' = NoTarget
           /\ points' = points ]_vars

\* A drag moved the corners and the pointer was then released.
C16_Witness ==
  /\ lastEvent.op = "end"
  /\ activePoint = NoTarget
  /\ drags > 0
  /\ points # DefaultPoints

\* An endpoint k of the dragged edge has its x (its y) changed by the update.
AcceptedX == \E k \in Ends : points[k].x # lastEvent.prev[k].x
AcceptedY == \E k \in Ends : points[k].y # lastEvent.prev[k].y

\* C17: an edge update displaces by the vector from the edge's midpoint to the
\* clamped pointer; whenever both the x and the y translation are accepted the
\* edge's midpoint afterwards is the clamped pointer position.
C17_EdgeMidpointAtPointer ==
  (EdgeMoved /\ FitsX /\ FitsY)
    => /\ points[activePoint - 4].x + points[(activePoint - 3) % 4].x
            = 2 * Nearest(lastEvent.x)
       /\ points[activePoint - 4].y + points[(activePoint - 3) % 4].y
            = 2 * Nearest(lastEvent.y)
       /\ handles[activePoint - 4] = Pt(Nearest(lastEvent.x), Nearest(lastEvent.y))

\* An edge was translated on both axes, off its old midpoint, by a pointer that
\* had to be clamped.
C17_Witness ==
  /\ EdgeMoved /\ FitsX /\ FitsY
  /\ AcceptedX /\ AcceptedY
  /\ OutOfRange(lastEvent.x) \/ OutOfRange(lastEvent.y)
  /\ handles[activePoint - 4] = Pt(Nearest(lastEvent.x), Nearest(lastEvent.y))

\* The step that made event ev called one of the caller's callbacks.
ToldCaller(ev) == ev.calls \cap CallerProps # { }

\* C18: when re-reading the source on skip fails, the failure is reported to the
\* caller, onConfirm is not invoked, and the quadrilateral stays as it was.
C18_SkipFailureReported ==
  [][ (lastEvent'.op = "fetch" /\ ~lastEvent'.ok)
        => /\ ToldCaller(lastEvent')
           /\ ~lastEvent'.onConfirm
           /\ points' = points ]_vars

\* C19: a confirm triggered while the source image is not decoded fails with an
\* explicit error and hands nothing to encoding.
C19_ImageNotReady ==
  (lastEvent.op = "confirm" /\ ~img.loaded)
    => /\ lastEvent.calls # { }
       /\ \A k \in DOMAIN pending : pending[k].task # "toBlob"

\* C20: when the toBlob callback receives no blob the failure surfaces to the
\* caller: the caller is not left with neither a result nor an error.
C20_EncodeFailureSurfaces ==
  (lastEvent.op = "toBlob" /\ ~lastEvent.blob) => ToldCaller(lastEvent)

TrapezoidWarped ==
  /\ Warped
  /\ points = Trapezoid
  /\ img.naturalWidth = 1000 /\ img.naturalHeight = 1000

\* C22 as claimed: the trapezoid's output width is the larger of the top and
\* bottom edge lengths in pixels, which is 803 px to within a pixel, the height
\* likewise the larger of left and right, and both triangles are drawn.
C22_TrapezoidAbout803 ==
  TrapezoidWarped =>
    /\ IsLarger(lastEvent.warp.finalWidthSq, LenSq(0, 1), LenSq(3, 2))
    /\ IsLarger(lastEvent.warp.finalHeightSq, LenSq(0, 3), LenSq(1, 2))
    /\ lastEvent.warp.finalWidthSq >= 802 * 802
    /\ lastEvent.warp.finalWidthSq <= 804 * 804
    /\ lastEvent.warp.triA.drawn /\ lastEvent.warp.triB.drawn

\* C22 amended: the width is the larger of the top and bottom edge lengths,
\* sqrt(800^2 + 50^2) px, between 801 and 802 px (canvas width 801); the height
\* is sqrt(50^2 + 750^2) px, between 751 and 752 px; both triangles are drawn.
C22_TrapezoidAbout802 ==
  TrapezoidWarped =>
    /\ IsLarger(lastEvent.warp.finalWidthSq, LenSq(0, 1), LenSq(3, 2))
    /\ IsLarger(lastEvent.warp.finalHeightSq, LenSq(0, 3), LenSq(1, 2))
    /\ lastEvent.warp.finalWidthSq = 800 * 800 + 50 * 50
    /\ lastEvent.warp.width = 801
    /\ lastEvent.warp.finalHeightSq = 50 * 50 + 750 * 750
    /\ lastEvent.warp.height = 751
    /\ lastEvent.warp.triA.drawn /\ lastEvent.warp.triB.drawn
    /\ lastEvent.warp.triA.det # 0 /\ lastEvent.warp.triB.det # 0

\* The trapezoid was confirmed: the top edge is the longer of top and bottom.
C22_Witness ==
  /\ TrapezoidWarped
  /\ LenSq(0, 1) > LenSq(3, 2)
  /\ lastEvent.warp.finalWidthSq = LenSq(0, 1)
  /\ lastEvent.warp.width = 801

\* The quadrilateral (0,0),(50,0),(100,0),(50,50) on the 1000 x 1000 image has
\* just been confirmed.
CollinearTopWarped ==
  /\ Warped
  /\ points = CollinearTop
  /\ img.naturalWidth = 1000 /\ img.naturalHeight = 1000

\* C23 as claimed: corners 0, 1, 2 of (0,0),(50,0),(100,0),(50,50) are collinear
\* and the triangle spanning them is skipped, so that one of the two triangles
\* is left undrawn.
C23_CollinearTrioSkipped ==
  CollinearTopWarped =>
    /\ Collinear(0, 1, 2)
    /\ ~lastEvent.warp.triA.drawn \/ ~lastEvent.warp.triB.drawn

\* C23 amended: corners 0, 1, 2 are collinear, but the two triangles drawn are
\* (0,1,3) and (2,1,3), neither of which is collinear: both are drawn and no
\* region of the sqrt(500000) x sqrt(500000) px output is left blank.
C23_CollinearTrioNotATriangle ==
  CollinearTopWarped =>
    /\ Collinear(0, 1, 2)
    /\ ~Collinear(0, 1, 3) /\ ~Collinear(2, 1, 3)
    /\ lastEvent.warp.triA.drawn /\ lastEvent.warp.triB.drawn
    /\ lastEvent.warp.finalWidthSq = 500 * 500 + 500 * 500
    /\ lastEvent.warp.finalHeightSq = 500 * 500 + 500 * 500
    /\ lastEvent.warp.width = 707 /\ lastEvent.warp.height = 707

\* The scenario was confirmed and both triangles were drawn.
C23_Witness ==
  /\ CollinearTopWarped
  /\ Collinear(0, 1, 2)
  /\ lastEvent.warp.triA.drawn /\ lastEvent.warp.triB.drawn
  /\ lastEvent.warp.triA.det = -lastEvent.warp.triB.det

\* Segments p-q and r-s cross: each has the other's ends strictly on either side.
Crosses(p, q, r, s) ==
  /\ (Turn(p, q, r) > 0 /\ Turn(p, q, s) < 0) \/ (Turn(p, q, r) < 0 /\ Turn(p, q, s) > 0)
  /\ (Turn(r, s, p) > 0 /\ Turn(r, s, q) < 0) \/ (Turn(r, s, p) < 0 /\ Turn(r, s, q) > 0)

\* No two non-adjacent edges of the quadrilateral cross.
Simple(pts) ==
  /\ ~Crosses(pts[0], pts[1], pts[2], pts[3])
  /\ ~Crosses(pts[1], pts[2], pts[3], pts[0])

\* C24: the quadrilateral is simple in every reachable state: from the default
\* box or a simple seed no sequence of corner and edge drags makes two
\* non-adjacent edges cross.
C24_AlwaysSimple == Simple(points)

\* C25: whenever the user confirms with a loaded image a result is handed to the
\* caller, also when the output width or height is zero: once the callback of
\* the confirm has run, without a failure of the encoder, onConfirm has been
\* invoked.
C25_ConfirmDelivers ==
  (lastEvent.op = "toBlob" /\ lastEvent.encoded /\ img.loaded)
    => (lastEvent.onConfirm /\ confirmed)

\* C26: the seed overwrites the quadrilateral at most once in a session: when a
\* seed has been applied, a later delivery of a changed initialPoints leaves
\* the corners as they are.
C26_SeedAtMostOnce ==
  [][ (/\ lastEvent.op = "seed"
       /\ WellFormed(lastEvent.initialPoints)
       /\ lastEvent'.op = "seed"
       /\ lastEvent'.initialPoints # lastEvent.initialPoints)
        => points' = points ]_vars


\* The corners a drag update on the target may write.
Targeted(target) ==
  IF target < 4 THEN {target} ELSE {target - 4, (target - 3) % 4}

\* C27: a drag update changes only the targeted corners: with a corner target
\* the other three corners keep their values, with an edge target the two corners
\* that are not endpoints of the edge keep theirs, and in both cases the active
\* target and the four corner indices are as before.
C27_OnlyTargetedChange ==
  [][ (lastEvent'.op = "move" /\ activePoint # NoTarget)
        => /\ \A k \in Corners \ Targeted(activePoint) : points'[k] = points[k]
           /\ activePoint' = activePoint
           /\ DOMAIN points' = DOMAIN points ]_vars

\* An edge drag has moved both endpoints of its edge and no other corner.
C27_Witness ==
  /\ lastEvent.op = "move"
  /\ activePoint # NoTarget
  /\ \A k \in Targeted(activePoint) : points[k] # lastEvent.prev[k]
  /\ \A k \in Corners \ Targeted(activePoint) : points[k] = lastEvent.prev[k]
  /\ activePoint >= 4


\* C28: an edge update translates the edge rigidly: whichever of the two axes
\* were accepted, the difference vector between corner (i+1) mod 4 and corner i
\* of the dragged edge i is the same after the update as before it.
C28_EdgeRigid ==
  EdgeMoved =>
    LET i == activePoint - 4
        j == (activePoint - 3) % 4
    IN /\ points[j].x - points[i].x = lastEvent.prev[j].x - lastEvent.prev[i].x
       /\ points[j].y - points[i].y = lastEvent.prev[j].y - lastEvent.prev[i].y

\* An edge drag whose x translation was accepted and whose y translation was
\* refused has moved an edge that is neither horizontal nor vertical.
C28_Witness ==
  /\ EdgeMoved
  /\ AcceptedX /\ ~AcceptedY /\ ~FitsY
  /\ \A k \in Ends : points[k].x # points[CHOOSE m \in Ends : m # k].x
                       /\ points[k].y # points[CHOOSE m \in Ends : m # k].y


\* C29: confirm and skip read the quadrilateral and never modify it: a step of
\* rectification or of skip, the request and its completion alike, leaves the
\* four corners, the active target and everything else the editor holds as they
\* were, and a completed request leaves nothing of its canvas behind.
C29_ConfirmSkipReadOnly ==
  [][ pending' # pending
        => /\ points' = points
           /\ activePoint' = activePoint
           /\ handles' = handles
           /\ img' = img
           /\ lastEvent'.op \in {"toBlob", "fetch"}
                => Len(pending') = Len(pending) - 1 ]_vars

\* A rectification has run to its result while a target was active on a
\* quadrilateral the user had dragged away from the default box.
C29_Witness ==
  /\ lastEvent.op = "toBlob"
  /\ lastEvent.blob
  /\ activePoint # NoTarget
  /\ drags > 0
  /\ points # DefaultPoints


\* C30: a drag update produces a new quadrilateral value and does not modify in
\* place the value held before the update: after a corner drag and after an edge
\* drag alike, the point records held before still show their old coordinates.
C30_PreviousValueKept ==
  (lastEvent.op = "move" /\ activePoint # NoTarget)
    => lastEvent.held = lastEvent.prev

====
